---- MODULE Spec2Model ----
(***************************************************************************)
(* A model of modules/combine_modules.py: the elementary rotation          *)
(* matrices, rotate, and combine_data, which reads a Dynamo .tbl table and *)
(* a Dynamo .em volume and writes one text document.                       *)
(*                                                                         *)
(* Text is a sequence of items.  An item is one of the characters " ",     *)
(* "\t", "\n", or an atomic chunk of non-whitespace text (a field of the   *)
(* table, a rendered number, a label).  Python's + on str is \o here.      *)
(* Angles are kept in degrees and restricted to multiples of 90, where     *)
(* math.cos and math.sin are the integers -1, 0, 1; math.radians is the    *)
(* change of unit and is carried by the representation.                    *)
(***************************************************************************)
EXTENDS Integers, Sequences, FiniteSets, TLC

VARIABLES
    tbl_file,            \* content of args.tbl: a sequence of lines
    em_src,              \* what the volume source args.em holds
    args,                \* [output, compress]
    fs0,                 \* the output directory before the run
    fs,                  \* the output directory: path -> [exists, data]
    pc,                  \* position in combine_data
    tbl_open,            \* the handle of the with-block at line 121
    out_open,            \* the handle of the with-block at line 150
    line_no,             \* lines of the table consumed by the for loop
    abc,                 \* the locals a, b, c of the last row parsed
    transformation_set,  \* the list built at lines 124-145
    length,              \* the counter of lines 125, 146
    em,                  \* the object voxel.EM returned
    i,                   \* the loop variable of line 151
    stdout,              \* what print has written
    outcome,             \* "running", "ok", or the exception that ended the run
    rot_args,            \* rotate called on its own: <<a, b, c, convention>>
    rot_ret,             \* what that call returned
    rot_pc               \* "call", "returned" or "raised"

vars == <<tbl_file, em_src, args, fs0, fs, pc, tbl_open, out_open, line_no, abc,
          transformation_set, length, em, i, stdout, outcome,
          rot_args, rot_ret, rot_pc>>

combine_vars == <<tbl_file, em_src, args, fs0, fs, pc, tbl_open, out_open, line_no,
                  abc, transformation_set, length, em, i, outcome>>

rot_vars == <<rot_args, rot_ret, rot_pc>>

-----------------------------------------------------------------------------
(* Bounds of the model. *)

\* A table has at most MaxRows lines.
MaxRows == 2

\* rotate is called on the angles 0, 90, ..., 90 * MaxQuarter degrees.
MaxQuarter == 3

-----------------------------------------------------------------------------
(* Characters and Python's None. *)

SP == " "

TAB == "\t"

NL == "\n"

Whitespace == {SP, TAB, NL}

None == <<>>

-----------------------------------------------------------------------------
(* math.cos, math.sin on an angle given in degrees, a multiple of 90. *)

cos(theta) ==
    CASE theta % 360 = 0   -> 1
      [] theta % 360 = 90  -> 0
      [] theta % 360 = 180 -> -1
      [] theta % 360 = 270 -> 0

sin(theta) ==
    CASE theta % 360 = 0   -> 0
      [] theta % 360 = 90  -> 1
      [] theta % 360 = 180 -> 0
      [] theta % 360 = 270 -> -1

matrix_z(theta) ==
    << <<cos(theta), -sin(theta), 0>>,
       <<sin(theta), cos(theta), 0>>,
       <<0, 0, 1>> >>

matrix_y_transposed(theta) ==
    << <<cos(theta), 0, -sin(theta)>>,
       <<0, 1, 0>>,
       <<sin(theta), 0, cos(theta)>> >>

matrix_y(theta) ==
    << <<cos(theta), 0, sin(theta)>>,
       <<0, 1, 0>>,
       <<-sin(theta), 0, cos(theta)>> >>

matrix_x(theta) ==
    << <<1, 0, 0>>,
       <<0, cos(theta), -sin(theta)>>,
       <<0, sin(theta), cos(theta)>> >>

\* numpy's A.dot(B) on 3x3 arrays.
dot(A, B) ==
    [r \in 1..3 |-> [col \in 1..3 |->
        A[r][1] * B[1][col] + A[r][2] * B[2][col] + A[r][3] * B[3][col]]]

rotate(a, b, c, convention) ==
    CASE convention = "zxz" -> dot(dot(matrix_z(a), matrix_x(b)), matrix_z(c))
      [] convention = "zyz" -> dot(dot(matrix_z(a), matrix_y(b)), matrix_z(c))
      [] convention = "yzy" -> dot(dot(matrix_y(a), matrix_z(b)), matrix_y(c))
      [] convention = "yxy" -> dot(dot(matrix_y(a), matrix_x(b)), matrix_y(c))
      [] convention = "xzx" -> dot(dot(matrix_x(a), matrix_z(b)), matrix_x(c))
      [] convention = "xyx" -> dot(dot(matrix_x(a), matrix_y(b)), matrix_x(c))
      [] OTHER -> None

\* What rotate prints: the else branch of line 103.
rotate_prints(convention) ==
    IF convention \in {"zxz", "zyz", "yzy", "yxy", "xzx", "xyx"}
    THEN <<>>
    ELSE <<"convention not supported">>

-----------------------------------------------------------------------------
(* Python's text operations on sequences of items. *)

\* s.split(sep): cut at EVERY occurrence of the one character sep; two
\* neighbouring occurrences give an empty piece, other whitespace is kept.
RECURSIVE split(_, _)
split(s, sep) ==
    IF \A k \in 1..Len(s) : s[k] # sep
    THEN <<s>>
    ELSE LET k == CHOOSE k \in 1..Len(s) :
                      s[k] = sep /\ \A j \in 1..(k - 1) : s[j] # sep
         IN  <<SubSeq(s, 1, k - 1)>> \o split(SubSeq(s, k + 1, Len(s)), sep)

\* s.strip(), which float applies to its argument.
RECURSIVE strip(_)
strip(s) ==
    IF s = <<>> THEN s
    ELSE IF Head(s) \in Whitespace THEN strip(Tail(s))
    ELSE IF s[Len(s)] \in Whitespace THEN strip(SubSeq(s, 1, Len(s) - 1))
    ELSE s

\* The numbers whose decimal text occurs in a table of the model, by text.
NumberOf == [n \in {90 * k : k \in 0..120} |-> ToString(n)]

NumberTexts == {NumberOf[n] : n \in DOMAIN NumberOf}

\* float(s) raises ValueError unless s, stripped, is the text of one number.
is_float(s) == Len(strip(s)) = 1 /\ strip(s)[1] \in NumberTexts

\* float(s), in degrees.
float(s) == CHOOSE n \in DOMAIN NumberOf : NumberOf[n] = strip(s)[1]

\* str(each) for an element of the rotation matrix.
str(each) == ToString(each) \o ".0"

-----------------------------------------------------------------------------
(* The body of the for loop of combine_data, lines 128-145.  line is the   *)
(* list line.split(" "); Python's line[k] is line[k + 1] here.             *)

at(line, k) == line[k + 1]

index_ok(line, k) == k < Len(line)

\* Lines 139-140: one row of the matrix.
rotation_string(row) ==
    <<str(row[1]), TAB, str(row[2]), TAB, str(row[3]), TAB>>

flag_stuck(r) == 23

\* Lines 136, 143: flag in the iteration for matrix row r (r = 0, 1, 2).
flag(r) == 23 + r

\* Line 141.
transformation(line, rotation, r) ==
    rotation_string(rotation[r + 1]) \o at(line, flag(r)) \o <<TAB>>

\* Lines 129-143.
transformation_string(line, rotation) ==
    transformation(line, rotation, 0) \o transformation(line, rotation, 1)
        \o transformation(line, rotation, 2)

\* The exception the loop body raises on line, or "none": line 132 evaluates
\* float(line[6]), float(line[7]), float(line[8]) in this order, and line 141
\* reads line[23], line[24], line[25].
row_error(line) ==
    IF ~index_ok(line, 6) THEN "IndexError"
    ELSE IF ~is_float(at(line, 6)) THEN "ValueError"
    ELSE IF ~index_ok(line, 7) THEN "IndexError"
    ELSE IF ~is_float(at(line, 7)) THEN "ValueError"
    ELSE IF ~index_ok(line, 8) THEN "IndexError"
    ELSE IF ~is_float(at(line, 8)) THEN "ValueError"
    ELSE IF \E r \in 0..2 : ~index_ok(line, flag(r)) THEN "IndexError"
    ELSE "none"

-----------------------------------------------------------------------------
(* The inputs: tables in the .tbl convention of lines 10-50, one particle  *)
(* per line, and the volume source.                                        *)

\* The text of column col (1-based) of a row whose Euler angles are ang.
Field(col, ang) == IF col \in 7..9 THEN ang[col - 6] ELSE ToString(360 * col)

\* What separates column col from column col + 1 in a row of kind sep.
Separator(col, sep) ==
    CASE sep = "single" -> <<SP>>
      [] sep = "double" -> IF col = 1 THEN <<SP, SP>> ELSE <<SP>>
      [] sep = "tab"    -> IF col = 7 THEN <<TAB>> ELSE <<SP>>

RECURSIVE RowText(_, _, _, _)
RowText(col, nf, ang, sep) ==
    IF col = nf THEN <<Field(col, ang), NL>>
    ELSE <<Field(col, ang)>> \o Separator(col, sep) \o RowText(col + 1, nf, ang, sep)

AngleTexts == {<<"0", "90", "180">>, <<"0", "abc", "0">>}

FieldCounts == {25, 26, 27}

Rows ==
    {RowText(1, nf, ang, sep) :
        nf \in FieldCounts, ang \in AngleTexts, sep \in {"single", "double", "tab"}}

Tables == UNION {[1..n -> Rows] : n \in 0..MaxRows}

\* The attributes combine_data reads from voxel.EM(args.em), lines 154-165.
EMSources ==
    {[readable |-> r, mode |-> 2, nc |-> 4, nr |-> 5, ns |-> 6,
      volume_encoded |-> "RAW64", volume_encoded_compressed |-> "ZLIB64"] :
        r \in BOOLEAN}

NoEM == [readable |-> FALSE, mode |-> 0, nc |-> 0, nr |-> 0, ns |-> 0,
         volume_encoded |-> "", volume_encoded_compressed |-> ""]

\* Files of the output directory.
Absent == [exists |-> FALSE, data |-> <<>>]

OldFile == [exists |-> TRUE, data |-> <<"old", NL>>]

\* Line 150: f"{args.output}.txt".
OutPath == <<args.output, ".txt">>

\* Line 162: f"{args.output}_compressed.txt".
CompressedPath == <<args.output, "_compressed.txt">>

Paths == {<<"out", ".txt">>, <<"out", "_compressed.txt">>}

-----------------------------------------------------------------------------
(* combine_data(args), lines 109-166. *)

\* Line 152: the line written for the i-th element (i counted from 0).
tag_line(k) ==
    <<"Tag, transformation:", TAB, ToString(k + 1), TAB>>
        \o transformation_set[k + 1] \o <<NL>>

\* Lines 154-157.
meta_line(label, value) == <<label, TAB, ToString(value), NL>>

chosen_payload_swapped == IF args.compress THEN em.volume_encoded
                          ELSE em.volume_encoded_compressed

\* Lines 159-165: the attribute of em whose text goes on the Data line.
chosen_payload == IF args.compress THEN em.volume_encoded_compressed
                  ELSE em.volume_encoded

\* Lines 161, 165.
data_line == <<"Data:", TAB, chosen_payload>>

\* Lines 160, 164.
mode_message == IF args.compress THEN <<"compressed">> ELSE <<"uncompressed">>

\* Lines 162, 166: the name the last print gives.
reported_path == IF args.compress THEN CompressedPath ELSE OutPath

created_message == reported_path \o <<" is created.">>

\* file.write(text) on the file opened at line 150.
write(text) == fs' = [fs EXCEPT ![OutPath].data = @ \o text]

\* Line 121 and lines 124-125.
OpenTbl ==
    /\ pc = "start"
    /\ tbl_open' = TRUE
    /\ transformation_set' = <<>>
    /\ length' = 0
    /\ pc' = "loop"
    /\ UNCHANGED <<tbl_file, em_src, args, fs0, fs, out_open, line_no, abc, em, i,
                   stdout, outcome, rot_vars>>

\* Lines 127-146: one iteration of the loop that runs to its end.
ReadRow ==
    /\ pc = "loop"
    /\ line_no < Len(tbl_file)
    /\ LET line == split(tbl_file[line_no + 1], SP)
       IN  /\ row_error(line) = "none"
           /\ LET a == float(at(line, 6))
                  b == float(at(line, 7))
                  c == float(at(line, 8))
                  rotation == rotate(a, b, c, "zxz")
              IN  /\ abc' = <<a, b, c>>
                  /\ transformation_set' =
                         Append(transformation_set, transformation_string(line, rotation))
    /\ length' = length + 1
    /\ line_no' = line_no + 1
    /\ UNCHANGED <<tbl_file, em_src, args, fs0, fs, pc, tbl_open, out_open, em, i,
                   stdout, outcome, rot_vars>>

ReadRowFail_leak ==
    /\ pc = "loop"
    /\ line_no < Len(tbl_file)
    /\ row_error(split(tbl_file[line_no + 1], SP)) # "none"
    /\ outcome' = row_error(split(tbl_file[line_no + 1], SP))
    /\ line_no' = line_no + 1
    /\ pc' = "done"
    /\ UNCHANGED <<tbl_file, em_src, args, fs0, fs, tbl_open, out_open, abc,
                   transformation_set, length, em, i, stdout, rot_vars>>

\* Lines 127-143: an iteration that raises; the exception leaves the with
\* block of line 121, which closes the table, and ends combine_data.
ReadRowFail ==
    /\ pc = "loop"
    /\ line_no < Len(tbl_file)
    /\ row_error(split(tbl_file[line_no + 1], SP)) # "none"
    /\ outcome' = row_error(split(tbl_file[line_no + 1], SP))
    /\ line_no' = line_no + 1
    /\ tbl_open' = FALSE
    /\ pc' = "done"
    /\ UNCHANGED <<tbl_file, em_src, args, fs0, fs, out_open, abc,
                   transformation_set, length, em, i, stdout, rot_vars>>

\* The table is exhausted: the with block of line 121 ends.
CloseTbl ==
    /\ pc = "loop"
    /\ line_no = Len(tbl_file)
    /\ tbl_open' = FALSE
    /\ pc' = "em"
    /\ UNCHANGED <<tbl_file, em_src, args, fs0, fs, out_open, line_no, abc,
                   transformation_set, length, em, i, stdout, outcome, rot_vars>>

\* Line 149.
LoadEM ==
    /\ pc = "em"
    /\ em_src.readable
    /\ em' = em_src
    /\ pc' = "open"
    /\ UNCHANGED <<tbl_file, em_src, args, fs0, fs, tbl_open, out_open, line_no, abc,
                   transformation_set, length, i, stdout, outcome, rot_vars>>

\* Line 149, the reader raising.
LoadEMFail ==
    /\ pc = "em"
    /\ ~em_src.readable
    /\ outcome' = "VolumeError"
    /\ pc' = "done"
    /\ UNCHANGED <<tbl_file, em_src, args, fs0, fs, tbl_open, out_open, line_no, abc,
                   transformation_set, length, em, i, stdout, rot_vars>>

\* Line 150: mode "w+" creates the file or truncates it.
OpenOut ==
    /\ pc = "open"
    /\ fs' = [fs EXCEPT ![OutPath] = [exists |-> TRUE, data |-> <<>>]]
    /\ out_open' = TRUE
    /\ i' = 0
    /\ pc' = "tags"
    /\ UNCHANGED <<tbl_file, em_src, args, fs0, tbl_open, line_no, abc,
                   transformation_set, length, em, stdout, outcome, rot_vars>>

\* Line 150, open raising (the destination is not writable).
OpenOutFail ==
    /\ pc = "open"
    /\ outcome' = "OSError"
    /\ pc' = "done"
    /\ UNCHANGED <<tbl_file, em_src, args, fs0, fs, tbl_open, out_open, line_no, abc,
                   transformation_set, length, em, i, stdout, rot_vars>>

\* Lines 151-152.
WriteTag ==
    /\ pc = "tags"
    /\ i < length
    /\ write(tag_line(i))
    /\ i' = i + 1
    /\ UNCHANGED <<tbl_file, em_src, args, fs0, pc, tbl_open, out_open, line_no, abc,
                   transformation_set, length, em, stdout, outcome, rot_vars>>

\* Line 154, reached when range(length) is exhausted.
WriteMode ==
    /\ pc = "tags"
    /\ i = length
    /\ write(meta_line("Mode:", em.mode))
    /\ pc' = "nc"
    /\ UNCHANGED <<tbl_file, em_src, args, fs0, tbl_open, out_open, line_no, abc,
                   transformation_set, length, em, i, stdout, outcome, rot_vars>>

\* Line 155.
WriteNc ==
    /\ pc = "nc"
    /\ write(meta_line("Nc:", em.nc))
    /\ pc' = "nr"
    /\ UNCHANGED <<tbl_file, em_src, args, fs0, tbl_open, out_open, line_no, abc,
                   transformation_set, length, em, i, stdout, outcome, rot_vars>>

\* Line 156.
WriteNr ==
    /\ pc = "nr"
    /\ write(meta_line("Nr:", em.nr))
    /\ pc' = "ns"
    /\ UNCHANGED <<tbl_file, em_src, args, fs0, tbl_open, out_open, line_no, abc,
                   transformation_set, length, em, i, stdout, outcome, rot_vars>>

\* Line 157.
WriteNs ==
    /\ pc = "ns"
    /\ write(meta_line("Ns:", em.ns))
    /\ pc' = "data"
    /\ UNCHANGED <<tbl_file, em_src, args, fs0, tbl_open, out_open, line_no, abc,
                   transformation_set, length, em, i, stdout, outcome, rot_vars>>

\* Lines 159-166 and the end of the with block of line 150.
WriteData ==
    /\ pc = "data"
    /\ write(data_line)
    /\ stdout' = stdout \o <<mode_message, created_message>>
    /\ out_open' = FALSE
    /\ outcome' = "ok"
    /\ pc' = "done"
    /\ UNCHANGED <<tbl_file, em_src, args, fs0, tbl_open, line_no, abc,
                   transformation_set, length, em, i, rot_vars>>

\* A file.write of lines 152-165 raising (OSError: the device is full, the
\* file has gone): the exception leaves the with block of line 150, which
\* closes the file with what was written so far, and ends combine_data.
WriteFail ==
    /\ pc \in {"tags", "nc", "nr", "ns", "data"}
    /\ stdout' = IF pc = "data" THEN Append(stdout, mode_message) ELSE stdout
    /\ out_open' = FALSE
    /\ outcome' = "OSError"
    /\ pc' = "done"
    /\ UNCHANGED <<tbl_file, em_src, args, fs0, fs, tbl_open, line_no, abc,
                   transformation_set, length, em, i, rot_vars>>

Init ==
    /\ tbl_file \in Tables
    /\ em_src \in EMSources
    /\ args \in [output : {"out"}, compress : BOOLEAN]
    /\ fs0 \in {[p \in Paths |-> Absent],
                [p \in Paths |-> IF p = <<"out", ".txt">> THEN OldFile ELSE Absent]}
    /\ fs = fs0
    /\ pc = "start"
    /\ tbl_open = FALSE
    /\ out_open = FALSE
    /\ line_no = 0
    /\ abc = None
    /\ transformation_set = <<>>
    /\ length = 0
    /\ em = NoEM
    /\ i = 0
    /\ stdout = <<>>
    /\ outcome = "running"
    /\ rot_args = <<0, 0, 0, "zxz">>
    /\ rot_ret = None
    /\ rot_pc = "idle"

Next ==
    \/ OpenTbl
    \/ ReadRow
    \/ ReadRowFail
    \/ CloseTbl
    \/ LoadEM
    \/ LoadEMFail
    \/ OpenOut
    \/ OpenOutFail
    \/ WriteTag
    \/ WriteMode
    \/ WriteNc
    \/ WriteNr
    \/ WriteNs
    \/ WriteData
    \/ WriteFail

Spec == Init /\ [][Next]_vars

-----------------------------------------------------------------------------
(* rotate called on its own, with any convention string. *)

Conventions == {"zxz", "zyz", "yzy", "yxy", "xzx", "xyx", "xyz", "ZXZ", ""}

Angles == {90 * k : k \in 0..MaxQuarter}

\* Lines 85-106: every path of rotate ends in a return.
RotateCall ==
    /\ rot_pc = "call"
    /\ rot_ret' = rotate(rot_args[1], rot_args[2], rot_args[3], rot_args[4])
    /\ stdout' = stdout \o rotate_prints(rot_args[4])
    /\ rot_pc' = "returned"
    /\ UNCHANGED <<combine_vars, rot_args>>

InitRotate ==
    /\ rot_args \in Angles \X Angles \X Angles \X Conventions
    /\ rot_ret = None
    /\ rot_pc = "call"
    /\ stdout = <<>>
    /\ tbl_file = <<>>
    /\ em_src = NoEM
    /\ args = [output |-> "out", compress |-> FALSE]
    /\ fs0 = [p \in Paths |-> Absent]
    /\ fs = fs0
    /\ pc = "idle"
    /\ tbl_open = FALSE
    /\ out_open = FALSE
    /\ line_no = 0
    /\ abc = None
    /\ transformation_set = <<>>
    /\ length = 0
    /\ em = NoEM
    /\ i = 0
    /\ outcome = "running"

NextRotate == RotateCall

SpecRotate == InitRotate /\ [][NextRotate]_vars

-----------------------------------------------------------------------------
(* Notions the properties are stated in. *)

\* The fields of a line as the table format defines them: the maximal runs
\* of non-whitespace text.
RECURSIVE ws_fields(_)
ws_fields(s) ==
    IF s = <<>> THEN <<>>
    ELSE IF Head(s) \in Whitespace THEN ws_fields(Tail(s))
    ELSE LET stops == {k \in 1..Len(s) : s[k] \in Whitespace}
             n == IF stops = {} THEN Len(s) + 1
                  ELSE CHOOSE k \in stops : \A j \in stops : k <= j
         IN  <<SubSeq(s, 1, n - 1)>> \o ws_fields(SubSeq(s, n, Len(s)))

\* The same fields separated by single spaces, the line ended by a line break.
RECURSIVE single_spaced(_)
single_spaced(f) ==
    IF Len(f) = 1 THEN f[1] \o <<NL>>
    ELSE f[1] \o <<SP>> \o single_spaced(Tail(f))

\* The number of fields a row needs: the highest index read, line[25].
FieldsNeeded == flag(2) + 1

\* A valid row: enough fields, and numbers in the angle columns 7, 8, 9.
ValidRow(text) ==
    LET f == ws_fields(text)
    IN  Len(f) >= FieldsNeeded /\ \A col \in 7..9 : is_float(f[col])

\* The right-handed rotation about axis 1 (x), 2 (y) or 3 (z), from the
\* axis-angle formula  cos I + (1 - cos) u u^T + sin [u]x.
LeviCivita(p, q, r) == ((p - q) * (q - r) * (r - p)) \div 2

Elementary(axis, theta) ==
    [p \in 1..3 |-> [q \in 1..3 |->
        cos(theta) * (IF p = q THEN 1 ELSE 0)
        + (1 - cos(theta)) * (IF p = axis /\ q = axis THEN 1 ELSE 0)
        - sin(theta) * LeviCivita(p, q, axis)]]

MatMul(A, B) ==
    [p \in 1..3 |-> [q \in 1..3 |->
        A[p][1] * B[1][q] + A[p][2] * B[2][q] + A[p][3] * B[3][q]]]

Supported == {"zxz", "zyz", "xzx", "xyx", "yxy", "yzy"}

Axes(convention) ==
    CASE convention = "zxz" -> <<3, 1, 3>>
      [] convention = "zyz" -> <<3, 2, 3>>
      [] convention = "xzx" -> <<1, 3, 1>>
      [] convention = "xyx" -> <<1, 2, 1>>
      [] convention = "yxy" -> <<2, 1, 2>>
      [] convention = "yzy" -> <<2, 3, 2>>

EulerProduct(a, b, c, convention) ==
    MatMul(MatMul(Elementary(Axes(convention)[1], a),
                  Elementary(Axes(convention)[2], b)),
           Elementary(Axes(convention)[3], c))

\* The document combine_data is to write, from the list it built and em.
RECURSIVE TagLines(_)
TagLines(n) == IF n = 0 THEN <<>> ELSE TagLines(n - 1) \o tag_line(n - 1)

FullDocument ==
    TagLines(Len(transformation_set))
        \o <<"Mode:", TAB, ToString(em.mode), NL>>
        \o <<"Nc:", TAB, ToString(em.nc), NL>>
        \o <<"Nr:", TAB, ToString(em.nr), NL>>
        \o <<"Ns:", TAB, ToString(em.ns), NL>>
        \o <<"Data:", TAB,
             IF args.compress THEN em.volume_encoded_compressed
             ELSE em.volume_encoded>>

Succeeded == pc = "done" /\ outcome = "ok"

-----------------------------------------------------------------------------
(* The properties. *)

\* C1: for a table of N valid rows the document written has exactly N + 5
\* lines: N lines "Tag, transformation:" numbered 1..N by position, then
\* "Mode:", "Nc:", "Nr:", "Ns:", then one "Data:" line; no field copied from
\* a row adds a line break.
C1_DocumentHasNPlus5Lines ==
    (Succeeded /\ \A k \in 1..Len(tbl_file) : ValidRow(tbl_file[k])) =>
        LET L == split(fs[OutPath].data, NL)
            N == Len(tbl_file)
        IN  /\ Len(L) = N + 5
            /\ \A k \in 1..N :
                   /\ Len(L[k]) >= 3
                   /\ SubSeq(L[k], 1, 3) = <<"Tag, transformation:", TAB, ToString(k)>>
            /\ \A k \in 1..5 : Len(L[N + k]) >= 1
            /\ <<L[N + 1][1], L[N + 2][1], L[N + 3][1], L[N + 4][1], L[N + 5][1]>>
                   = <<"Mode:", "Nc:", "Nr:", "Ns:", "Data:">>

\* One row-group of a fragment: the matrix row, each component followed by a
\* tab, then the scalar followed by a tab.
RowGroup(row, scalar) ==
    <<str(row[1]), TAB, str(row[2]), TAB, str(row[3]), TAB>> \o scalar \o <<TAB>>

\* The zxz matrix of the angles the pieces 6, 7, 8 of a line hold.
MatrixOf(line) ==
    EulerProduct(float(at(line, 6)), float(at(line, 7)), float(at(line, 8)), "zxz")

C3_UnsupportedConventionRaises ==
    rot_args[4] \notin Supported => rot_pc # "returned"

\* C4: a failed run leaves the output destination with its previous content
\* or a complete document, never a prefix; a volume the reader cannot read
\* fails the run before anything is written.
C4_NoPartialOutput ==
    (pc = "done" /\ outcome # "ok") =>
        /\ outcome = "VolumeError" => fs = fs0
        /\ \/ fs[OutPath] = fs0[OutPath]
           \/ fs[OutPath] = [exists |-> TRUE, data |-> FullDocument]

\* C5: a row with fewer fields than the highest index read, or with a
\* non-numeric angle field, ends the whole run in an error: the row is not
\* skipped, no later row is processed, the output is neither created nor
\* changed.
C5_BadRowAbortsRun ==
    \A k \in 1..Len(tbl_file) :
        (pc = "done" /\ ~ValidRow(tbl_file[k])) =>
            /\ outcome \in {"IndexError", "ValueError"}
            /\ line_no <= k
            /\ length < k
            /\ fs = fs0

\* C6: exactly one payload form is written on the Data line, the compressed
\* encoding when args.compress is true and the raw one when it is false,
\* never both and never the other.
C6_OnePayloadForm ==
    LET data == fs[OutPath].data
        wanted == IF args.compress THEN em_src.volume_encoded_compressed
                  ELSE em_src.volume_encoded
        other == IF args.compress THEN em_src.volume_encoded
                 ELSE em_src.volume_encoded_compressed
        L == split(data, NL)
    IN  /\ \A k \in 1..Len(data) : data[k] # other
        /\ Cardinality({k \in 1..Len(data) : data[k] = wanted}) <= 1
        /\ Succeeded => L[Len(L)] = <<"Data:", TAB, wanted>>

C6_Witness == Succeeded /\ args.compress /\ length = 1

\* C7: a line whose fields are separated by any run of whitespace is parsed
\* as the same line with single-space separators: the angles from the fields
\* 7, 8, 9 and the scalars from their fixed fields.
C7_AnyWhitespaceSeparates ==
    (line_no >= 1 /\ ValidRow(tbl_file[line_no])) =>
        LET f == ws_fields(tbl_file[line_no])
            line == split(single_spaced(f), SP)
        IN  /\ outcome \notin {"IndexError", "ValueError"}
            /\ abc = <<float(f[7]), float(f[8]), float(f[9])>>
            /\ length = line_no
            /\ transformation_set[line_no] =
                   RowGroup(MatrixOf(line)[1], line[24])
                       \o RowGroup(MatrixOf(line)[2], line[25])
                       \o RowGroup(MatrixOf(line)[3], line[26])

\* C8: for the six supported conventions and angles that are multiples of 90
\* degrees, rotate(a, b, c, convention) is the product of the right-handed
\* elementary rotations about the first, second and third axis, first operand
\* leftmost; (90, 0, 0) under zxz gives [[0,-1,0],[1,0,0],[0,0,1]].
C8_RotateIsEulerProduct ==
    (rot_pc = "returned" /\ rot_args[4] \in Supported) =>
        /\ rot_ret = EulerProduct(rot_args[1], rot_args[2], rot_args[3], rot_args[4])
        /\ rot_args = <<90, 0, 0, "zxz">> =>
               rot_ret = << <<0, -1, 0>>, <<1, 0, 0>>, <<0, 0, 1>> >>

C8_Witness ==
    /\ rot_pc = "returned"
    /\ rot_args = <<90, 180, 270, "yxy">>
    /\ rot_ret # None

C10_ReportedNameIsWrittenFile ==
    Succeeded =>
        LET message == stdout[Len(stdout)]
            name == SubSeq(message, 1, Len(message) - 1)
        IN  /\ name = OutPath
            /\ fs[name] = [exists |-> TRUE, data |-> FullDocument]

====
